---------------------------- MODULE Spec2Model ----------------------------
(***************************************************************************)
(* Model of the ICGEM data-section parser of xanthospap/gravity:           *)
(*   coeffs_nr, dso::Icgem::parse_data,                                    *)
(*   parse_static_coefficients           (src/unnamed/part_000)            *)
(*   dso::Icgem::inspect_data            (src/src/icgemio_inspect_data.cpp,*)
(*                                        the copy matching the header     *)
(*                                        src/unnamed/part_001)            *)
(* Lines are sequences of one-character strings; the numeric scanners      *)
(* (strtol, strtod, from_chars) are computed character by character.       *)
(***************************************************************************)
EXTENDS Integers, Sequences, FiniteSets, TLC

(***************************************************************************)
(* Bounds of the model.                                                    *)
(***************************************************************************)
\* largest degree/order given to coeffs_nr in the counting harness
MaxCount == 20
\* largest degree a caller requests from parse_data
MaxDeg == 2
\* data lines of the file read by inspect_data
MaxLines == 3
\* inspect_data calls in one behaviour
MaxPasses == 2
\* gfc lines outside the format convention (repeated pair, order > degree,
\* negative degree, nonzero S(l,0)) that one parse_data pass may read
MaxOdd == 1

(***************************************************************************)
(* Characters and C strings.                                               *)
(***************************************************************************)
NUL == "NUL"

DigitChar == <<"0", "1", "2", "3", "4", "5", "6", "7", "8", "9">>

IsDigit(c) == \E i \in 1..10 : DigitChar[i] = c

DigitVal(c) == (CHOOSE i \in 1..10 : DigitChar[i] = c) - 1

\* the byte at offset o of the char array s; the terminating NUL of a line
\* that fills the modelled part of the array lies right behind it
Ch(s, o) == IF o >= 0 /\ o < Len(s) THEN s[o + 1] ELSE NUL

RECURSIVE Pow10(_)
Pow10(n) == IF n = 0 THEN 1 ELSE 10 * Pow10(n - 1)

\* offset of the first byte at or after o that is not a space
RECURSIVE SkipSpace(_, _)
SkipSpace(s, o) == IF Ch(s, o) = " " THEN SkipSpace(s, o + 1) ELSE o

\* offset behind the run of decimal digits starting at o, not passing last
RECURSIVE DigitsEnd(_, _, _)
DigitsEnd(s, o, last) ==
  IF o < last /\ IsDigit(Ch(s, o)) THEN DigitsEnd(s, o + 1, last) ELSE o

\* value of the decimal digits s[from .. to-1]
RECURSIVE DigitsVal(_, _, _)
DigitsVal(s, from, to) ==
  IF to <= from THEN 0
  ELSE 10 * DigitsVal(s, from, to - 1) + DigitVal(Ch(s, to - 1))

\* a decimal value m * 10^-k in lowest terms: equal doubles, equal pairs
RECURSIVE Norm(_, _)
Norm(m, k) ==
  IF m = 0 THEN <<0, 0>>
  ELSE IF k > 0 /\ m % 10 = 0 THEN Norm(m \div 10, k - 1)
  ELSE <<m, k>>

Neg(v) == <<0 - v[1], v[2]>>

\* std::strtol(s + o, &end, 10): white space, optional sign, digits;
\* no digits: no conversion, end = s + o
strtol(s, o) ==
  LET p == SkipSpace(s, o)
      q == IF Ch(s, p) \in {"-", "+"} THEN p + 1 ELSE p
      e == DigitsEnd(s, q, Len(s))
      v == DigitsVal(s, q, e)
  IN IF e = q THEN [ok |-> FALSE, val |-> 0, end |-> o]
     ELSE [ok |-> TRUE, val |-> IF Ch(s, p) = "-" THEN 0 - v ELSE v, end |-> e]

\* the decimal literal digits[.digits] between q and last
DecimalAt(s, q, last) ==
  LET e1 == DigitsEnd(s, q, last)
      dot == e1 < last /\ Ch(s, e1) = "."
      e2 == IF dot THEN DigitsEnd(s, e1 + 1, last) ELSE e1
      nfrac == IF dot THEN e2 - (e1 + 1) ELSE 0
      ndig == (e1 - q) + nfrac
      m == DigitsVal(s, q, e1) * Pow10(nfrac) + DigitsVal(s, e1 + 1, e2)
  IN [ok |-> ndig > 0, val |-> Norm(m, nfrac), end |-> e2]

\* std::strtod(s + o, &end): white space, optional sign, decimal literal
strtod(s, o) ==
  LET p == SkipSpace(s, o)
      q == IF Ch(s, p) \in {"-", "+"} THEN p + 1 ELSE p
      d == DecimalAt(s, q, Len(s))
  IN IF ~d.ok THEN [ok |-> FALSE, val |-> <<0, 0>>, end |-> o]
     ELSE [ok |-> TRUE, val |-> IF Ch(s, p) = "-" THEN Neg(d.val) ELSE d.val,
           end |-> d.end]

\* skip_ws: while (*str && *str == ' ') ++str
RECURSIVE skip_ws(_, _)
skip_ws(s, o) ==
  IF Ch(s, o) # NUL /\ Ch(s, o) = " " THEN skip_ws(s, o + 1) ELSE o

\* std::from_chars(s + first, s + last, int&): optional '-', digits; no
\* white space, no '+'; no digits: ec = invalid_argument, ptr = first
from_chars_int(s, first, last) ==
  LET q == IF first < last /\ Ch(s, first) = "-" THEN first + 1 ELSE first
      e == DigitsEnd(s, q, last)
      v == DigitsVal(s, q, e)
  IN IF e = q THEN [ok |-> FALSE, val |-> 0, end |-> first]
     ELSE [ok |-> TRUE, val |-> IF q > first THEN 0 - v ELSE v, end |-> e]

\* std::from_chars(s + first, s + last, double&)
from_chars_double(s, first, last) ==
  LET q == IF first < last /\ Ch(s, first) = "-" THEN first + 1 ELSE first
      d == DecimalAt(s, q, last)
  IN IF ~d.ok THEN [ok |-> FALSE, val |-> <<0, 0>>, end |-> first]
     ELSE [ok |-> TRUE, val |-> IF q > first THEN Neg(d.val) ELSE d.val,
           end |-> d.end]

\* strlen(line)
RECURSIVE strlen(_, _)
strlen(s, o) == IF Ch(s, o) = NUL THEN o ELSE strlen(s, o + 1)

\* starts_with(pattern, line)
starts_with(pattern, s) ==
  \A i \in 1..Len(pattern) : Ch(s, i - 1) = pattern[i]

(***************************************************************************)
(* coeffs_nr                                                               *)
(***************************************************************************)
RECURSIVE SumTo(_, _, _)
SumTo(i, l, m) ==
  IF i > l THEN 0
  ELSE (IF i > m THEN m + 1 ELSE i + 1) + SumTo(i + 1, l, m)

\* a variant: the closed form without its + n term
coeffs_nr_noadd(l, m) ==
  IF l = m THEN ((l + 1) * l) \div 2 ELSE SumTo(0, l, m)

coeffs_nr(l, m) ==
  IF l = m
    THEN LET n == l + 1 IN (n * (n - 1)) \div 2 + n
    ELSE SumTo(0, l, m)


(***************************************************************************)
(* The text of data lines.  A line is the 4-character tag followed by its  *)
(* fields, each preceded by one space.                                     *)
(***************************************************************************)
RECURSIVE NatText(_)
NatText(n) ==
  IF n < 10 THEN <<DigitChar[n + 1]>>
  ELSE NatText(n \div 10) \o <<DigitChar[(n % 10) + 1]>>

IntText(n) == IF n < 0 THEN <<"-">> \o NatText(0 - n) ELSE NatText(n)

\* the literal of a decimal value with at most one fractional digit
DecText(v) ==
  LET a == IF v[1] < 0 THEN 0 - v[1] ELSE v[1]
      sgn == IF v[1] < 0 THEN <<"-">> ELSE <<>>
  IN IF v[2] = 0 THEN sgn \o NatText(a)
     ELSE sgn \o NatText(a \div 10) \o <<".">> \o NatText(a % 10)

RECURSIVE JoinFields(_)
JoinFields(fs) ==
  IF fs = <<>> THEN <<>> ELSE <<" ">> \o Head(fs) \o JoinFields(Tail(fs))

TagGfc == <<"g", "f", "c", " ">>
TagGfct == <<"g", "f", "c", "t">>
TagTrnd == <<"t", "r", "n", "d">>
TagAcos == <<"a", "c", "o", "s">>
TagAsin == <<"a", "s", "i", "n">>
TagOther == <<"k", "e", "y", " ">>

LineText(tag, fs) == tag \o JoinFields(fs)

(***************************************************************************)
(* State.                                                                  *)
(***************************************************************************)
VARIABLES
  \* the counting harness: arguments and result of one coeffs_nr call
  cnt_l, cnt_m, cnt_res,
  \* the build: which branch of the __GNUC__ < 11 switch is compiled, and
  \* whether NDEBUG removes the assert
  build, ndebug,
  \* dso::Icgem members
  data_section_pos, max_degree,
  \* whether the file named at construction can (still) be opened
  openable,
  degree_static_start, degree_static_stop,
  order_static_start, order_static_stop,
  degree_tv_start, degree_tv_stop,
  order_tv_start, order_tv_stop,
  harmonics,
  \* locals of inspect_data
  tvg_ll, tvg_mm, line, start,
  \* the data section read by inspect_data: the lines revealed so far,
  \* whether its end is known, lines consumed by getline, the stream state
  file, closed, fpos,
  \* the running call: where it is and what it returned
  pc, ret, fstate, npass,
  \* arguments, locals and the store of parse_data
  req_l, req_m, C, S, coeffs_read, coeffs_to_read,
  \* what the parse_data pass has read and written so far (history)
  seen, recC, recS, nodd, touched,
  \* the previous inspect_data pass: its result and the state it left
  prev,
  \* arguments and the local error of parse_static_coefficients
  maxdegree, maxorder, error,
  \* the turns its while loop has made, counted modulo 2 (history)
  turn

countVars == <<cnt_l, cnt_m, cnt_res>>
buildVars == <<build, ndebug>>
headVars == <<data_section_pos, max_degree, openable>>
boundVars == <<degree_static_start, degree_static_stop,
               order_static_start, order_static_stop,
               degree_tv_start, degree_tv_stop,
               order_tv_start, order_tv_stop>>
inspVars == <<boundVars, harmonics, tvg_ll, tvg_mm, line, start,
              file, closed, fpos, npass, prev>>
extrVars == <<req_l, req_m, C, S, coeffs_read, coeffs_to_read,
              seen, recC, recS, nodd, touched>>
statVars == <<maxdegree, maxorder, error, turn>>
vars == <<countVars, buildVars, headVars, inspVars, extrVars, statVars,
          pc, ret, fstate>>

\* the cells of the store: pairs (l, m) with 0 <= m <= l
Cells == {p \in (0..MaxDeg) \X (0..MaxDeg) : p[2] <= p[1]}

\* the pairs extract(L, M) is asked for
Window(L, M) == {p \in Cells : p[1] <= L /\ p[2] <= M}

\* the result slot of the counting harness before the call
NotCalled == 0 - 1

\* an indeterminate pointer: char *start of inspect_data before any assignment
Uninit == 0 - 1

\* -999e0, the value parse_data puts in C(1,0) and C(1,1) before reading
Sentinel == <<0 - 999, 0>>

Zero == <<0, 0>>

\* the outcome and the members a call of inspect_data leaves behind
Result(r) == [ret |-> r,
              bounds |-> <<degree_static_start, degree_static_stop,
                           order_static_start, order_static_stop,
                           degree_tv_start, degree_tv_stop,
                           order_tv_start, order_tv_stop>>,
              harmonics |-> harmonics]

NoResult == [ret |-> "none", bounds |-> <<0, 0, 0, 0, 0, 0, 0, 0>>,
             harmonics |-> <<>>]

InitCommon ==
  /\ cnt_l = 0 /\ cnt_m = 0 /\ cnt_res = NotCalled
  /\ build \in {"strtol", "from_chars"}
  /\ ndebug \in BOOLEAN
  /\ openable = TRUE
  /\ data_section_pos = 0 /\ max_degree = 0
  /\ degree_static_start = 0 /\ degree_static_stop = 0
  /\ order_static_start = 0 /\ order_static_stop = 0
  /\ degree_tv_start = 0 /\ degree_tv_stop = 0
  /\ order_tv_start = 0 /\ order_tv_stop = 0
  /\ harmonics = <<>>
  /\ tvg_ll = 0 /\ tvg_mm = 0 /\ line = <<>> /\ start = Uninit
  /\ file = <<>> /\ closed = FALSE /\ fpos = 0
  /\ pc = "idle" /\ ret = "none" /\ fstate = "closed" /\ npass = 0
  /\ req_l = 0 /\ req_m = 0
  /\ C = [p \in Cells |-> Zero] /\ S = [p \in Cells |-> Zero]
  /\ coeffs_read = 0 /\ coeffs_to_read = 0
  /\ seen = {} /\ recC = [p \in Cells |-> Zero] /\ recS = [p \in Cells |-> Zero]
  /\ nodd = 0 /\ touched = {}
  /\ prev = NoResult
  /\ maxdegree = 0 /\ maxorder = 0 /\ error = 0 /\ turn = 0

(***************************************************************************)
(* The counting harness: one call of coeffs_nr.                            *)
(***************************************************************************)
InitCount ==
  /\ cnt_l \in 0..MaxCount /\ cnt_m \in 0..cnt_l /\ cnt_res = NotCalled
  /\ build = "strtol" /\ ndebug = FALSE /\ openable = TRUE
  /\ data_section_pos = 0 /\ max_degree = 0
  /\ degree_static_start = 0 /\ degree_static_stop = 0
  /\ order_static_start = 0 /\ order_static_stop = 0
  /\ degree_tv_start = 0 /\ degree_tv_stop = 0
  /\ order_tv_start = 0 /\ order_tv_stop = 0
  /\ harmonics = <<>>
  /\ tvg_ll = 0 /\ tvg_mm = 0 /\ line = <<>> /\ start = Uninit
  /\ file = <<>> /\ closed = FALSE /\ fpos = 0
  /\ pc = "idle" /\ ret = "none" /\ fstate = "closed" /\ npass = 0
  /\ req_l = 0 /\ req_m = 0
  /\ C = [p \in Cells |-> Zero] /\ S = [p \in Cells |-> Zero]
  /\ coeffs_read = 0 /\ coeffs_to_read = 0
  /\ seen = {} /\ recC = [p \in Cells |-> Zero] /\ recS = [p \in Cells |-> Zero]
  /\ nodd = 0 /\ touched = {}
  /\ prev = NoResult
  /\ maxdegree = 0 /\ maxorder = 0 /\ error = 0 /\ turn = 0

CallCoeffsNr ==
  /\ cnt_res = NotCalled
  /\ cnt_res' = coeffs_nr(cnt_l, cnt_m)
  /\ UNCHANGED <<cnt_l, cnt_m, statVars, buildVars, headVars, inspVars, extrVars,
                 pc, ret, fstate>>

NextCount == CallCoeffsNr

SpecCount == InitCount /\ [][NextCount]_vars

\* the pairs (i, j) with 0 <= i <= l and 0 <= j <= min(i, m)
BruteForce(l, m) ==
  Cardinality({p \in (0..l) \X (0..m) : p[2] <= p[1]})

\* C1: for every 0 <= m <= l <= MaxCount, coeffs_nr(l, m) is the number of
\* pairs (i, j) with 0 <= i <= l, 0 <= j <= min(i, m) found by enumeration,
\* in the closed-form branch (l = m) as in the summation branch.
C1_CountMatchesEnumeration ==
  cnt_res # NotCalled => cnt_res = BruteForce(cnt_l, cnt_m)

\* C1 witness: the closed-form branch has been taken for the largest degree
C1_Witness ==
  cnt_res # NotCalled /\ cnt_l = cnt_m /\ cnt_l >= 20 /\ cnt_res = BruteForce(cnt_l, cnt_m)


(***************************************************************************)
(* The data lines a parse_data pass may meet.  Each carries the record it  *)
(* was written from (tag kind, degree, order, cosine and sine value), which*)
(* the code never sees: the code reads the text.                           *)
(***************************************************************************)
\* the cosine and sine value the file holds for the pair (l, m)
CosOf(l, m) == <<100 + 10 * l + m, 0>>
SinOf(l, m) == IF m = 0 THEN Zero ELSE Norm(10 * l + m, 1)

\* expecting columns: degree, order, Clm, Slm
GfcLine(l, m, c, s) ==
  [kind |-> "gfc", l |-> l, m |-> m, c |-> c, s |-> s,
   text |-> LineText(TagGfc, <<IntText(l), IntText(m), DecText(c), DecText(s)>>)]

PlainLine(kind, tag, fs) ==
  [kind |-> kind, l |-> 0, m |-> 0, c |-> Zero, s |-> Zero,
   text |-> LineText(tag, fs)]

\* the pairs a file holds: one degree beyond the largest request
FilePairs == {p \in (0..MaxDeg + 1) \X (0..MaxDeg + 1) : p[2] <= p[1]}

\* records within the format: 0 <= m <= l and S(l,0) = 0; the degree-1
\* cosine may also be the value -999
ConformingGfc ==
  {GfcLine(p[1], p[2], CosOf(p[1], p[2]), SinOf(p[1], p[2])) : p \in FilePairs}
  \cup {GfcLine(1, m, Sentinel, SinOf(1, m)) : m \in 0..1}

\* a nonzero sine value at order 0
AnomalyGfc == {GfcLine(l, 0, CosOf(l, 0), <<5, 1>>) : l \in 0..MaxDeg + 1}

\* an order above the degree, a negative degree
BogusGfc == {GfcLine(0, 1, CosOf(0, 1), SinOf(0, 1)),
             GfcLine(0 - 1, 0, CosOf(0, 0), Zero)}

\* gfc lines with fewer than four numeric fields
MalformedGfc ==
  {PlainLine("malformed", TagGfc, fs) :
     fs \in {<< <<"x">> >>,
             << IntText(1) >>,
             << IntText(1), <<"x">> >>,
             << IntText(1), IntText(0) >>,
             << IntText(1), IntText(0), DecText(CosOf(1, 0)) >>,
             << IntText(MaxDeg + 1), IntText(0) >>}}

\* lines of the other kinds
OtherLines ==
  {PlainLine("other", TagGfct,
             <<IntText(1), IntText(0), DecText(CosOf(1, 0)), DecText(Zero)>>),
   PlainLine("other", TagOther, << <<"x">> >>),
   PlainLine("other", <<>>, <<>>)}

\* the four conversions parse_data makes on a gfc line, each starting where
\* the one before ended
ScanGfc(text) ==
  LET a == strtol(text, 4)
      b == strtol(text, a.end)
      c == strtod(text, b.end)
      d == strtod(text, c.end)
  IN [gfc |-> starts_with(TagGfc, text),
      okll |-> a.ok, ll |-> a.val, okmm |-> b.ok, mm |-> b.val,
      okClm |-> c.ok, Clm |-> c.val, okSlm |-> d.ok, Slm |-> d.val]

XLines ==
  {[rec |-> r, scan |-> ScanGfc(r.text)] :
     r \in ConformingGfc \cup AnomalyGfc \cup BogusGfc \cup MalformedGfc
           \cup OtherLines}

\* a line outside the format convention, given what the pass has read
IsOdd(r) ==
  \/ r.kind = "malformed"
  \/ /\ r.kind = "gfc"
     /\ \/ r.m < 0 \/ r.l < 0 \/ r.m > r.l
        \/ r.m = 0 /\ r.s # Zero
        \/ <<r.l, r.m>> \in seen

\* the history of the pass after reading the line r
Noted(r) ==
  /\ IsOdd(r) => nodd < MaxOdd
  /\ nodd' = IF IsOdd(r) THEN nodd + 1 ELSE nodd
  /\ IF r.kind = "gfc" /\ <<r.l, r.m>> \in Window(req_l, req_m)
       THEN /\ seen' = seen \cup {<<r.l, r.m>>}
            /\ recC' = [recC EXCEPT ![<<r.l, r.m>>] = r.c]
            /\ recS' = [recS EXCEPT ![<<r.l, r.m>>] = r.s]
       ELSE UNCHANGED <<seen, recC, recS>>

(***************************************************************************)
(* parse_header (not in src/): sets the start of the data section and the  *)
(* maximum degree the header reports.  The file was opened to read the     *)
(* header; whether the later passes can open it again is the environment's *)
(* choice, made once.                                                      *)
(***************************************************************************)
ParseHeader ==
  /\ pc = "idle" /\ data_section_pos = 0 /\ npass = 0 /\ ret = "none"
  /\ openable
  /\ data_section_pos' = 1
  /\ max_degree' = MaxDeg
  /\ openable' \in BOOLEAN
  /\ UNCHANGED <<countVars, statVars, buildVars, inspVars, extrVars, pc, ret, fstate>>

(***************************************************************************)
(* dso::Icgem::parse_data                                                  *)
(***************************************************************************)
\* fin.getline(line, max_data_line) ends in one of three stream states: a
\* line was read ("good"); the end of the stream was met ("eof"); the line
\* has more than max_data_line - 1 characters ("fail": failbit without
\* eofbit).  The pass does not keep the file: the outcome of the getline
\* before each loop test is drawn when the test is made.
StreamEnded == fstate' \in {"eof", "fail"}

\* a variant: the degree is not compared with the request
InWindowOrderOnly(ll, mm, l, m) == mm <= m

\* a variant: the largest requested degree left out
InWindowStrict(ll, mm, l, m) == ll < l /\ mm <= m

\* if (ll <= l && mm <= m)
InWindow(ll, mm, l, m) == ll <= l /\ mm <= m

\* a variant: one missing value instead of two
OmissionCaseOne ==
  /\ coeffs_to_read - coeffs_read = 1
  /\ C[<<1, 0>>] = C[<<1, 1>>] /\ C[<<1, 1>>] = Sentinel

\* coeffs_to_read - coeffs_read == 2 && (C(1,0) == C(1,1) && C(1,1) == -999e0)
OmissionCase ==
  /\ coeffs_to_read - coeffs_read = 2
  /\ C[<<1, 0>>] = C[<<1, 1>>] /\ C[<<1, 1>>] = Sentinel

\* a variant: the order is not compared with the degree
OutOfRangeDegreeOnly(l, m) == l > max_degree

\* if (l > max_degree || m > l)
OutOfRange(l, m) == l > max_degree \/ m > l

\* a variant: the loop goes on when the count has reached the target
MoreToReadInclusive == coeffs_read <= coeffs_to_read

\* coeffs_read < coeffs_to_read, the second operand of the loop test
MoreToRead == coeffs_read < coeffs_to_read

\* the call, up to the first getline
ExtractBegin ==
  /\ pc = "idle" /\ ret = "none"
  /\ \E l \in 0..MaxDeg + 1, m \in 0..MaxDeg + 1 :
       /\ req_l' = l /\ req_m' = m
       /\ IF OutOfRange(l, m) \/ ~openable
            THEN /\ pc' = "done"
                 /\ ret' = IF OutOfRange(l, m) THEN "RangeError"
                           ELSE "IoError"
                 /\ UNCHANGED <<C, S, coeffs_read, coeffs_to_read, touched,
                                fstate>>
            ELSE /\ pc' = "loop"
                 /\ C' = [C EXCEPT ![<<1, 0>>] = Sentinel, ![<<1, 1>>] = Sentinel]
                 /\ touched' = {<<1, 0>>, <<1, 1>>}
                 /\ coeffs_read' = 0
                 /\ coeffs_to_read' = coeffs_nr(l, m)
                 /\ fstate' = "good"
                 /\ UNCHANGED <<S, ret>>
  /\ UNCHANGED <<countVars, statVars, buildVars, headVars, inspVars, seen, recC, recS,
                 nodd>>

\* one turn of the while loop on a line that does not start with "gfc "
ExtractSkip(x) ==
  /\ ~x.scan.gfc
  /\ UNCHANGED <<C, S, coeffs_read, touched, pc, ret, fstate>>

\* ... on a gfc line whose degree or order does not parse
ExtractBadIndex(x) ==
  /\ x.scan.gfc
  /\ ~x.scan.okll \/ ~x.scan.okmm
  /\ pc' = "done" /\ ret' = "FieldParseError"
  /\ UNCHANGED <<C, S, coeffs_read, touched, fstate>>

\* ... on a gfc line outside the requested degree and order
ExtractOutside(x) ==
  /\ x.scan.gfc /\ x.scan.okll /\ x.scan.okmm
  /\ ~InWindow(x.scan.ll, x.scan.mm, req_l, req_m)
  /\ UNCHANGED <<C, S, coeffs_read, touched, pc, ret, fstate>>

\* ... on a gfc line inside, whose Clm or Slm does not parse
ExtractBadValue(x) ==
  /\ x.scan.gfc /\ x.scan.okll /\ x.scan.okmm
  /\ InWindow(x.scan.ll, x.scan.mm, req_l, req_m)
  /\ ~x.scan.okClm \/ ~x.scan.okSlm
  /\ pc' = "done" /\ ret' = "FieldParseError"
  /\ UNCHANGED <<C, S, coeffs_read, touched, fstate>>

\* ... on a gfc line inside with four fields: the assignments to the store.
\* A cell outside 0 <= m <= l is not a cell of the store: the write is
\* undefined behaviour, which may pass unseen or end the process.
ExtractStore(x) ==
  LET cell == <<x.scan.ll, x.scan.mm>> IN
  /\ x.scan.gfc /\ x.scan.okll /\ x.scan.okmm
  /\ InWindow(x.scan.ll, x.scan.mm, req_l, req_m)
  /\ x.scan.okClm /\ x.scan.okSlm
  /\ touched' = touched \cup {cell}
  /\ coeffs_read' = coeffs_read + 1
  /\ IF cell \in Cells
       THEN /\ C' = [C EXCEPT ![cell] = x.scan.Clm]
            /\ S' = IF x.scan.mm = 0 THEN S ELSE [S EXCEPT ![cell] = x.scan.Slm]
            /\ IF x.scan.mm = 0 /\ x.scan.Slm # Zero /\ ~ndebug
                 THEN pc' = "done" /\ ret' = "abort" /\ UNCHANGED fstate
                 ELSE UNCHANGED <<pc, ret, fstate>>
       ELSE /\ UNCHANGED <<C, S>>
            /\ \/ pc' = "done" /\ ret' = "crash" /\ UNCHANGED fstate
               \/ IF x.scan.mm = 0 /\ x.scan.Slm # Zero /\ ~ndebug
                    THEN pc' = "done" /\ ret' = "abort" /\ UNCHANGED fstate
                    ELSE UNCHANGED <<pc, ret, fstate>>

\* the loop body on the line x, up to the next getline
ExtractOn(x) ==
  /\ Noted(x.rec)
  /\ \/ ExtractSkip(x)
     \/ ExtractBadIndex(x)
     \/ ExtractOutside(x)
     \/ ExtractBadValue(x)
     \/ ExtractStore(x)

\* while (fin.good() && coeffs_read < coeffs_to_read): a line was read
ExtractLine ==
  /\ pc = "loop" /\ MoreToRead
  /\ \E x \in XLines : ExtractOn(x)
  /\ UNCHANGED <<countVars, statVars, buildVars, headVars, inspVars, req_l, req_m,
                 coeffs_to_read>>

\* after the loop: the completion check
ExtractEnd ==
  /\ pc = "loop"
  /\ MoreToRead => StreamEnded
  /\ fstate' \in {"good", "eof", "fail"}
  /\ pc' = "done"
  /\ IF coeffs_read < coeffs_to_read
       THEN IF OmissionCase
              THEN /\ C' = [C EXCEPT ![<<1, 0>>] = Zero, ![<<1, 1>>] = Zero]
                   /\ ret' = "ok"
              ELSE /\ ret' = "CompletenessError"
                   /\ UNCHANGED C
       ELSE ret' = "ok" /\ UNCHANGED C
  /\ UNCHANGED <<countVars, statVars, buildVars, headVars, inspVars, req_l, req_m, S,
                 coeffs_read, coeffs_to_read, seen, recC, recS, nodd, touched>>

InitExtract == InitCommon /\ build = "strtol"

NextExtract == ParseHeader \/ ExtractBegin \/ ExtractLine \/ ExtractEnd

SpecExtract == InitExtract /\ [][NextExtract]_vars


(***************************************************************************)
(* Claims about parse_data (extract).                                      *)
(***************************************************************************)
\* the pass got past its argument and open checks
Ran == fstate # "closed"

\* every line read so far is within the format: no line is over-long,
\* every gfc line has four numeric fields, 0 <= order <= degree, S(l,0) = 0,
\* and no requested pair came twice
WellFormedInput == nodd = 0 /\ fstate # "fail"

StoreHolds(p) == C[p] = recC[p] /\ (p[2] > 0 => S[p] = recS[p])

\* C2: when the data section is well-formed and holds exactly one gfc record
\* for every pair of the requested window (among lines of other kinds and
\* gfc records outside the window), extract(L, M) returns success with
\* writtenCount = requiredCount(L, M), C(l, m) is the record's cosine value
\* for every pair of the window and S(l, m) its sine value where m > 0.
C2_FullWindowSucceeds ==
  (pc = "done" /\ Ran /\ WellFormedInput /\ seen = Window(req_l, req_m))
    => /\ ret = "ok"
       /\ coeffs_read = coeffs_nr(req_l, req_m)
       /\ \A p \in Window(req_l, req_m) : StoreHolds(p)

\* C2 witness: a pass over the window (2, 1) has read all its five records
C2_Witness ==
  /\ pc = "done" /\ ret = "ok" /\ WellFormedInput
  /\ req_l = 2 /\ req_m = 1 /\ seen = Window(2, 1) /\ coeffs_read = 5
  /\ C[<<2, 1>>] = CosOf(2, 1) /\ S[<<2, 1>>] = SinOf(2, 1)

Degree1 == {<<1, 0>>, <<1, 1>>}

\* C3: for L >= 1 and M >= 1, a well-formed data section with exactly one
\* gfc record for every pair of the window except (1,0) and (1,1) makes
\* extract(L, M) return success with C(1,0) = C(1,1) = 0 and every other
\* coefficient of the window equal to its file value.
C3_Degree1Omission ==
  (/\ pc = "done" /\ Ran /\ WellFormedInput
   /\ req_l >= 1 /\ req_m >= 1
   /\ seen = Window(req_l, req_m) \ Degree1)
    => /\ ret = "ok"
       /\ C[<<1, 0>>] = Zero /\ C[<<1, 1>>] = Zero
       /\ \A p \in seen : StoreHolds(p)

\* C3 witness: extract(2, 2) on the four records (0,0), (2,0), (2,1), (2,2)
C3_Witness ==
  /\ pc = "done" /\ ret = "ok" /\ WellFormedInput /\ fstate = "eof"
  /\ req_l = 2 /\ req_m = 2 /\ seen = Window(2, 2) \ Degree1
  /\ coeffs_read = 4 /\ C[<<1, 0>>] = Zero /\ C[<<1, 1>>] = Zero
  /\ C[<<2, 2>>] = CosOf(2, 2)

\* C4: a pass that ends its scan with writtenCount < target fails with
\* CompletenessError unless exactly two coefficients are missing and no
\* record of the pass wrote (1,0) or (1,1).
C4_ShortfallOnlyForDegree1 ==
  (pc = "done" /\ Ran /\ coeffs_read < coeffs_to_read /\ ret = "ok")
    => /\ coeffs_to_read - coeffs_read = 2
       /\ <<1, 0>> \notin seen /\ <<1, 1>> \notin seen

\* C9: an in-window gfc record with order 0 and a nonzero sine value never
\* ends the pass or the process: the pass is not aborted.
C9_NonzeroS0IsWarning == ret # "abort"

\* C10 (extract): a pass invoked while the data-section start is unset
\* fails without reading a line and without touching the store.
C10_UnsetStartFails ==
  (data_section_pos = 0 /\ pc # "idle")
    => /\ pc = "done" /\ ret \notin {"ok", "none"}
       /\ fstate = "closed" /\ touched = {}
       /\ C = [p \in Cells |-> Zero]


(***************************************************************************)
(* The data lines an inspect_data pass may meet.  Each carries the record  *)
(* it was written from (kind, degree, order, period), which the code never *)
(* sees: the code reads the text.                                          *)
(***************************************************************************)
\* static constexpr const std::size_t max_data_line = 512
max_data_line == 512

\* the two periods (in years) the files use: 1 and 0.5
PeriodA == <<1, 0>>
PeriodB == <<5, 1>>

\* gfc, gfct, trnd: degree, order, Clm, Slm
IndexLine(kind, tag, l, m) ==
  [kind |-> kind, l |-> l, m |-> m, per |-> Zero,
   text |-> LineText(tag, <<IntText(l), IntText(m),
                            DecText(CosOf(l, m)), DecText(SinOf(l, m))>>)]

\* acos, asin: degree, order, six values, the period
HarmonicLine(kind, tag, l, m, per) ==
  [kind |-> kind, l |-> l, m |-> m, per |-> per,
   text |-> LineText(tag, <<IntText(l), IntText(m), DecText(<<5, 1>>),
                            DecText(Zero), DecText(Zero), DecText(Zero),
                            DecText(Zero), DecText(Zero), DecText(per)>>)]

OddLine(kind, text) ==
  [kind |-> kind, l |-> 0, m |-> 0, per |-> Zero, text |-> text]

ILines ==
  {IndexLine("gfc", TagGfc, 0, 0), IndexLine("gfc", TagGfc, 2, 1),
   IndexLine("gfct", TagGfct, 1, 0), IndexLine("gfct", TagGfct, 2, 1),
   IndexLine("trnd", TagTrnd, 1, 0), IndexLine("trnd", TagTrnd, 2, 1),
   HarmonicLine("acos", TagAcos, 1, 0, PeriodA),
   HarmonicLine("asin", TagAsin, 1, 0, PeriodB),
   HarmonicLine("acos", TagAcos, 2, 1, PeriodA),
   HarmonicLine("asin", TagAsin, 2, 1, PeriodB),
   HarmonicLine("acos", TagAcos, 0 - 1, 0 - 1, PeriodA),
   IndexLine("trnd", TagTrnd, 0 - 1, 0 - 1),
   \* an unknown tag
   OddLine("other", LineText(TagOther, << <<"x">> >>)),
   \* a blank line, a line shorter than a tag
   OddLine("other", <<>>),
   OddLine("other", <<"g", "f", "c">>),
   \* a degree that is not a number
   OddLine("malformed", LineText(TagGfct, << <<"x">> >>)),
   \* fewer than seven values
   OddLine("malformed", LineText(TagAcos, <<IntText(2), IntText(1),
                                            DecText(<<5, 1>>), DecText(Zero)>>)),
   \* a gfc record followed by blanks, longer than max_data_line
   OddLine("long", IndexLine("gfc", TagGfc, 0, 0).text
                     \o [i \in 1..max_data_line |-> " "])}

(***************************************************************************)
(* dso::Icgem::inspect_data                                                *)
(***************************************************************************)
\* the buffer after getline stored text and its terminating NUL: the bytes
\* behind the NUL are those of former lines
Put(buf, text) ==
  text \o <<NUL>> \o SubSeq(buf, Len(text) + 2, Len(buf))

\* what getline can find with pos lines consumed: a line of the file as far
\* as it is known, or the end of the file, or one more line
Incoming(pos) ==
  IF pos < Len(file)
    THEN {[eof |-> FALSE, rec |-> file[pos + 1]]}
    ELSE {[eof |-> TRUE, rec |-> OddLine("other", <<>>)]}
         \cup IF closed \/ Len(file) >= MaxLines THEN {}
              ELSE {[eof |-> FALSE, rec |-> r] : r \in ILines}

\* a variant: a line beyond the limit is cut and delivered as a line
GetlineCutting(pos, buf, o) ==
  /\ closed' = (closed \/ o.eof)
  /\ file' = IF ~o.eof /\ pos = Len(file) THEN Append(file, o.rec) ELSE file
  /\ fpos' = IF o.eof THEN pos ELSE pos + 1
  /\ IF o.eof
       THEN fstate' = "eof" /\ line' = Put(buf, <<>>)
       ELSE /\ fstate' = "good"
            /\ line' = IF Len(o.rec.text) > max_data_line - 1
                         THEN Put(buf, SubSeq(o.rec.text, 1, max_data_line - 1))
                         ELSE Put(buf, o.rec.text)

\* fin.getline(line, max_data_line) finding o
Getline(pos, buf, o) ==
  /\ closed' = (closed \/ o.eof)
  /\ file' = IF ~o.eof /\ pos = Len(file) THEN Append(file, o.rec) ELSE file
  /\ fpos' = IF o.eof THEN pos ELSE pos + 1
  /\ IF o.eof
       THEN fstate' = "eof" /\ line' = Put(buf, <<>>)
       ELSE IF Len(o.rec.text) > max_data_line - 1
              THEN /\ fstate' = "fail"
                   /\ line' = Put(buf, SubSeq(o.rec.text, 1, max_data_line - 1))
              ELSE fstate' = "good" /\ line' = Put(buf, o.rec.text)

\* the two builds: #if defined(__GNUC__) && (__GNUC__ < 11) strtol/strtod,
\* else from_chars behind skip_ws and bounded by line + sz
scan_int(s, from) ==
  IF build = "strtol" THEN strtol(s, from)
  ELSE from_chars_int(s, skip_ws(s, from), strlen(s, 0))

scan_double(s, from) ==
  IF build = "strtol" THEN strtod(s, from)
  ELSE from_chars_double(s, skip_ws(s, from), strlen(s, 0))

\* degree and order, the order read where the degree ended
Indices(from) ==
  LET a == scan_int(line, from)
      b == scan_int(line, a.end)
  IN [okll |-> a.ok, ll |-> a.val, okmm |-> b.ok, mm |-> b.val,
      mid |-> a.end, end |-> b.end]

\* for (int i = 0; i < 7; i++): n conversions from pos on; nerr counts the
\* failed ones, val is the last value, last is where the last one started
RECURSIVE ScanFields(_, _)
ScanFields(pos, n) ==
  IF n = 0 THEN [nerr |-> 0, val |-> Zero, end |-> pos, last |-> pos]
  ELSE LET h == ScanFields(pos, n - 1)
           r == scan_double(line, h.end)
       IN [nerr |-> h.nerr + (IF r.ok THEN 0 ELSE 1), val |-> r.val,
           end |-> r.end, last |-> h.end]

\* a variant: every nonzero value is taken, not the first only
UpdStartLast(cur, v) == IF v # 0 THEN v ELSE cur

\* if (!degree_static_start && ll) degree_static_start = ll
UpdStart(cur, v) == IF cur = 0 /\ v # 0 THEN v ELSE cur
\* if (ll > degree_static_stop) degree_static_stop = ll
UpdStop(cur, v) == IF v > cur THEN v ELSE cur

Range(q) == {q[i] : i \in 1..Len(q)}

\* a variant, the test of the earlier copy of inspect_data in the same file:
\* trnd compared with the largest TVG degree and order read so far
TrndMismatchRunningMax(ll, mm) == (ll # degree_tv_stop) \/ (mm # order_tv_stop)

\* trnd: if ((ll != tvg_ll) || (mm != tvg_mm))
TrndMismatch(ll, mm) == (ll # tvg_ll) \/ (mm # tvg_mm)

\* acos/asin: if ((ll != tvg_ll) || (mm != tvg_mm))
HarmonicMismatch(ll, mm) == (ll # tvg_ll) \/ (mm # tvg_mm)

\* the call, up to the first getline.  The model names the return sites by
\* the kind of error reported there; the code returns 1 at each of them.
InspectBegin ==
  /\ pc = "idle" /\ npass < MaxPasses
  /\ prev' = Result(ret)
  /\ IF data_section_pos = 0 \/ ~openable
       THEN /\ ret' = IF data_section_pos = 0 THEN "SequencingError"
                      ELSE "IoError"
            /\ npass' = npass + 1
            /\ UNCHANGED <<boundVars, harmonics, tvg_ll, tvg_mm, line, start,
                           file, closed, fpos, fstate, pc>>
       ELSE /\ degree_static_start' = 0 /\ degree_static_stop' = 0
            /\ order_static_start' = 0 /\ order_static_stop' = 0
            /\ degree_tv_start' = 0 /\ degree_tv_stop' = 0
            /\ order_tv_start' = 0 /\ order_tv_stop' = 0
            /\ tvg_ll' = 0 - 1 /\ tvg_mm' = 0 - 1
            /\ harmonics' = <<>>
            /\ start' = Uninit
            /\ pc' = "inspect" /\ ret' = "none"
            /\ \E o \in Incoming(0) : Getline(0, <<>>, o)
            /\ UNCHANGED npass
  /\ UNCHANGED <<countVars, statVars, buildVars, headVars, extrVars>>

\* return from inside the loop: no member was changed by the line; the
\* locals and the stream are gone
Return(r) ==
  /\ pc' = "idle" /\ ret' = r /\ npass' = npass + 1
  /\ tvg_ll' = 0 /\ tvg_mm' = 0 /\ line' = <<>> /\ start' = Uninit
  /\ UNCHANGED <<boundVars, harmonics, file, closed, fpos, fstate>>

\* the process ends
Crash ==
  /\ pc' = "crashed" /\ ret' = "crash" /\ npass' = npass + 1
  /\ tvg_ll' = 0 /\ tvg_mm' = 0 /\ line' = <<>> /\ start' = Uninit
  /\ UNCHANGED <<boundVars, harmonics, file, closed, fpos, fstate>>

\* the end of the loop body: read next line ...
Continue ==
  /\ UNCHANGED <<pc, ret, npass>>
  /\ \E o \in Incoming(fpos) : Getline(fpos, line, o)

\* where start points after degree and order were read from line + 4
StartAfter(ix) == IF build = "strtol" THEN ix.mid ELSE 4

\* if (starts_with("gfc ", line))
InspectGfc ==
  LET ix == Indices(4) IN
  /\ starts_with(TagGfc, line)
  /\ IF ~ix.okll \/ ~ix.okmm
       THEN Return("FieldParseError")
       ELSE /\ degree_static_start' = UpdStart(degree_static_start, ix.ll)
            /\ degree_static_stop' = UpdStop(degree_static_stop, ix.ll)
            /\ order_static_start' = UpdStart(order_static_start, ix.mm)
            /\ order_static_stop' = UpdStop(order_static_stop, ix.mm)
            /\ start' = StartAfter(ix)
            /\ UNCHANGED <<degree_tv_start, degree_tv_stop, order_tv_start,
                           order_tv_stop, harmonics, tvg_ll, tvg_mm>>
            /\ Continue

\* a variant: the order of the context is not taken from the record
AssignContextDegreeOnly(ll, mm) == tvg_ll' = ll /\ tvg_mm' = tvg_mm

\* assign current ll/mm of tvg: tvg_ll = ll; tvg_mm = mm
AssignContext(ll, mm) == tvg_ll' = ll /\ tvg_mm' = mm

\* else if (starts_with("gfct", line))
InspectGfct ==
  LET ix == Indices(4) IN
  /\ ~starts_with(TagGfc, line) /\ starts_with(TagGfct, line)
  /\ IF ~ix.okll \/ ~ix.okmm
       THEN Return("FieldParseError")
       ELSE /\ AssignContext(ix.ll, ix.mm)
            /\ degree_tv_start' = UpdStart(degree_tv_start, ix.ll)
            /\ degree_tv_stop' = UpdStop(degree_tv_stop, ix.ll)
            /\ order_tv_start' = UpdStart(order_tv_start, ix.mm)
            /\ order_tv_stop' = UpdStop(order_tv_stop, ix.mm)
            /\ start' = StartAfter(ix)
            /\ UNCHANGED <<degree_static_start, degree_static_stop,
                           order_static_start, order_static_stop, harmonics>>
            /\ Continue

\* else if (starts_with("trnd", line))
InspectTrnd ==
  LET ix == Indices(4) IN
  /\ ~starts_with(TagGfc, line) /\ ~starts_with(TagGfct, line)
  /\ starts_with(TagTrnd, line)
  /\ IF ~ix.okll \/ ~ix.okmm
       THEN Return("FieldParseError")
       ELSE IF TrndMismatch(ix.ll, ix.mm)
         THEN Return("ConsistencyError")
         ELSE /\ start' = StartAfter(ix)
              /\ UNCHANGED <<boundVars, harmonics, tvg_ll, tvg_mm>>
              /\ Continue

\* the acos/asin branch with start pointing at line + base: the branch
\* reads from start as the lines before left it
HarmonicAt(base) ==
  LET ix == Indices(base)
      f == ScanFields(ix.end, 7)
      period_exists == f.val \in Range(harmonics)
  IN IF ~ix.okll \/ ~ix.okmm \/ f.nerr > 0
       THEN Return("FieldParseError")
       ELSE IF HarmonicMismatch(ix.ll, ix.mm)
         THEN Return("ConsistencyError")
         ELSE IF ~(ix.ll = 1 /\ ix.mm = 0) /\ ~period_exists
           THEN Return("CatalogError")
           ELSE /\ harmonics' = IF ix.ll = 1 /\ ix.mm = 0 /\ ~period_exists
                                  THEN Append(harmonics, f.val)
                                  ELSE harmonics
                /\ start' = IF build = "strtol" THEN f.last ELSE base
                /\ UNCHANGED <<boundVars, tvg_ll, tvg_mm>>
                /\ Continue

\* else if (starts_with("acos", line) || starts_with("asin", line)).  With
\* no gfc, gfct or trnd line before, start was never assigned: reading
\* through it is undefined; the process ends, or the pointer happens to
\* point somewhere into the line
InspectHarmonic ==
  /\ ~starts_with(TagGfc, line) /\ ~starts_with(TagGfct, line)
  /\ ~starts_with(TagTrnd, line)
  /\ starts_with(TagAcos, line) \/ starts_with(TagAsin, line)
  /\ IF start = Uninit
       THEN \/ Crash
            \/ \E g \in 0..strlen(line, 0) : HarmonicAt(g)
       ELSE HarmonicAt(start)

\* a variant: a line of no known kind ends the pass
InspectUnknownFatal ==
  /\ ~starts_with(TagGfc, line) /\ ~starts_with(TagGfct, line)
  /\ ~starts_with(TagTrnd, line)
  /\ ~starts_with(TagAcos, line) /\ ~starts_with(TagAsin, line)
  /\ Return("FieldParseError")

\* else: [WRNNG] ICGEM line skipped
InspectUnknown ==
  /\ ~starts_with(TagGfc, line) /\ ~starts_with(TagGfct, line)
  /\ ~starts_with(TagTrnd, line)
  /\ ~starts_with(TagAcos, line) /\ ~starts_with(TagAsin, line)
  /\ UNCHANGED <<boundVars, harmonics, tvg_ll, tvg_mm, start>>
  /\ Continue

\* while (fin.good()): one line
InspectLine ==
  /\ pc = "inspect" /\ fstate = "good"
  /\ \/ InspectGfc
     \/ InspectGfct
     \/ InspectTrnd
     \/ InspectHarmonic
     \/ InspectUnknown
  /\ UNCHANGED <<countVars, statVars, buildVars, headVars, extrVars, prev>>

\* after the loop: if (!fin.eof()) return 5; return 0
InspectEnd ==
  /\ pc = "inspect" /\ fstate # "good"
  /\ Return(IF fstate = "eof" THEN "ok" ELSE "IoError")
  /\ UNCHANGED <<countVars, statVars, buildVars, headVars, extrVars, prev>>

InitInspect == InitCommon /\ ndebug = TRUE

NextInspect == ParseHeader \/ InspectBegin \/ InspectLine \/ InspectEnd

SpecInspect == InitInspect /\ [][NextInspect]_vars


(***************************************************************************)
(* Claims about inspect_data.                                              *)
(***************************************************************************)
\* (degree, order) of the last gfct record among the first k lines of the
\* file; (-1, -1) when there is none
RECURSIVE LastGfct(_)
LastGfct(k) ==
  IF k = 0 THEN <<0 - 1, 0 - 1>>
  ELSE IF file[k].kind = "gfct" THEN <<file[k].l, file[k].m>>
  ELSE LastGfct(k - 1)

\* the periods the (1,0) acos/asin records among the first k lines declare
Declared(k) ==
  {file[j].per : j \in {i \in 1..k : /\ file[i].kind \in {"acos", "asin"}
                                      /\ file[i].l = 1 /\ file[i].m = 0}}

\* line k is in the buffer, the loop body has not run on it
Pending(k) == k = fpos /\ pc = "inspect" /\ fstate = "good"

\* the loop body ran on line k and went on to the next getline
Accepted(k) == k < fpos \/ (k = fpos /\ fstate = "eof")

\* the pass returned r from the loop body on line k
Rejected(k, r) == k = fpos /\ pc # "inspect" /\ fstate = "good" /\ ret = r

\* a trnd record after some gfct record, with another (degree, order) than
\* the last of them
TrndOffContext(k) ==
  /\ file[k].kind = "trnd"
  /\ LastGfct(k - 1) # <<0 - 1, 0 - 1>>
  /\ <<file[k].l, file[k].m>> # LastGfct(k - 1)

\* C5: a trnd line whose (degree, order) differs from that of the most
\* recent gfct line before it is never passed over: the pass that reads it
\* returns ConsistencyError from that line, and so a pass over a data
\* section holding such a line never returns success.  The reference is the
\* last gfct record, not the largest TVG degree and order seen.
C5_TrndMismatchFails ==
  \A k \in 1..Len(file) :
    (k <= fpos /\ TrndOffContext(k))
      => /\ Pending(k) \/ Rejected(k, "ConsistencyError")
         /\ ret # "ok"

\* C5 witness: gfct 2 1, gfct 1 0, trnd 2 1: the trnd line agrees with the
\* largest TVG degree and order, not with the last gfct record, and the pass
\* returned ConsistencyError from it
C5_Witness ==
  /\ Len(file) >= 3
  /\ file[1].kind = "gfct" /\ file[1].l = 2 /\ file[1].m = 1
  /\ file[2].kind = "gfct" /\ file[2].l = 1 /\ file[2].m = 0
  /\ file[3].kind = "trnd" /\ file[3].l = 2 /\ file[3].m = 1
  /\ degree_tv_stop = 2 /\ order_tv_stop = 1
  /\ Rejected(3, "ConsistencyError")

\* an acos/asin record off (1,0), with the (degree, order) of the last gfct
\* record before it, with seven values, whose period no earlier (1,0)
\* acos/asin record declared
UndeclaredPeriod(k) ==
  /\ file[k].kind \in {"acos", "asin"}
  /\ <<file[k].l, file[k].m>> # <<1, 0>>
  /\ LastGfct(k - 1) # <<0 - 1, 0 - 1>>
  /\ <<file[k].l, file[k].m>> = LastGfct(k - 1)
  /\ file[k].per \notin Declared(k - 1)

\* C6: an acos/asin record off (1,0) that matches the active context, has
\* seven values and a period not in the catalog makes the pass return
\* CatalogError from that line, the catalog left without that period.
C6_UndeclaredPeriodFails ==
  \A k \in 1..Len(file) :
    (k <= fpos /\ UndeclaredPeriod(k))
      => \/ Pending(k)
         \/ /\ Rejected(k, "CatalogError")
            /\ file[k].per \notin Range(harmonics)

\* a (1,0) acos/asin record in the active context
Declares(k) ==
  /\ file[k].kind \in {"acos", "asin"}
  /\ <<file[k].l, file[k].m>> = <<1, 0>>
  /\ LastGfct(k - 1) = <<1, 0>>

\* C7: the catalog never holds a value twice; every (1,0) acos/asin record
\* is accepted, its period in the catalog afterwards, whether it was there
\* before or not.
C7_CatalogNoDuplicates ==
  /\ \A i, j \in 1..Len(harmonics) : harmonics[i] = harmonics[j] => i = j
  /\ \A k \in 1..Len(file) :
       (k <= fpos /\ Declares(k))
         => \/ Pending(k)
            \/ Accepted(k) /\ file[k].per \in Range(harmonics)

\* C8: the second of two calls in a row returns what the first returned and
\* leaves the same eight bounds and the same catalog, in the same order.
C8_TwoPassesAgree ==
  (npass >= 2 /\ pc # "inspect") => Result(ret) = prev


(***************************************************************************)
(* Further claims about parse_data (extract).                              *)
(***************************************************************************)
\* C11: extract(L, M) with M > L, or with L above the maximum degree the
\* header reports, returns RangeError without reading a line and without
\* writing a cell of the store: no sentinel is put in C(1,0) or C(1,1).
C11_RangeErrorLeavesStore ==
  (pc # "idle" /\ (req_m > req_l \/ req_l > max_degree))
    => /\ pc = "done" /\ ret = "RangeError"
       /\ fstate = "closed" /\ coeffs_read = 0 /\ touched = {}
       /\ C = [p \in Cells |-> Zero] /\ S = [p \in Cells |-> Zero]

\* C11 witness: the header was read, the degree is within the file's, the
\* order is above the degree, and the call has returned
C11_Witness ==
  /\ data_section_pos # 0 /\ openable
  /\ req_l <= max_degree /\ req_m > req_l
  /\ pc = "done" /\ ret = "RangeError" /\ touched = {}


(***************************************************************************)
(* Further claims about inspect_data.                                      *)
(***************************************************************************)
\* C12: a line longer than the line limit ends the pass that reads it: the
\* stream is failed and not at its end, the loop body never runs on the
\* line (no cut prefix of it is taken for a record), and the pass returns
\* IoError, never success.
C12_LongLineFails ==
  \A k \in 1..Len(file) :
    (k <= fpos /\ Len(file[k].text) > max_data_line)
      => /\ k = fpos /\ fstate = "fail"
         /\ IF pc = "inspect" THEN ret = "none" ELSE ret = "IoError"

\* C12 witness: the pass has returned IoError at an over-long line that came
\* after accepted records
C12_Witness ==
  /\ pc = "idle" /\ ret = "IoError" /\ fstate = "fail" /\ fpos = 3
  /\ Len(file[3].text) > max_data_line
  /\ file[1].kind = "gfc" /\ file[2].kind = "gfct"
  /\ degree_tv_stop = file[2].l

\* a text whose first four characters are none of the five tags; blank and
\* shorter texts are among them
UnknownText(t) ==
  \/ Len(t) < 4
  \/ SubSeq(t, 1, 4) \notin {TagGfc, TagGfct, TagTrnd, TagAcos, TagAsin}

\* C13: the loop body on a line whose first four characters are none of
\* "gfc ", "gfct", "trnd", "acos", "asin" never returns: the pass goes on
\* to the next getline with the eight bounds, the TVG context and the
\* catalog as they were.
C13_UnknownLineSkipped ==
  [][(pc = "inspect" /\ fstate = "good" /\ UnknownText(file[fpos].text))
       => /\ pc' = "inspect" /\ ret' = ret /\ npass' = npass
          /\ fstate' \in {"good", "eof", "fail"}
          /\ UNCHANGED <<boundVars, harmonics, tvg_ll, tvg_mm>>]_vars

\* C13 witness: after a gfct record, the three-character line "gfc" was
\* passed over and the pass stands at the line after it
C13_Witness ==
  /\ pc = "inspect" /\ fstate = "good" /\ fpos = 3
  /\ file[1].kind = "gfct" /\ file[2].text = <<"g", "f", "c">>
  /\ tvg_ll = file[1].l /\ tvg_mm = file[1].m

\* the number of lines the loop body of the current (or last) pass has run
\* on without returning
Processed ==
  IF fstate = "eof" THEN fpos ELSE IF fpos > 0 THEN fpos - 1 ELSE 0

FieldOf(r, f) == IF f = "degree" THEN r.l ELSE r.m

\* the largest value of field f among the records of kind K in the first n
\* lines, and 0
RECURSIVE MaxSeen(_, _, _)
MaxSeen(K, f, n) ==
  IF n = 0 THEN 0
  ELSE LET x == MaxSeen(K, f, n - 1)
       IN IF file[n].kind = K /\ FieldOf(file[n], f) > x
            THEN FieldOf(file[n], f) ELSE x

\* the first nonzero value of field f among the records of kind K in the
\* first n lines; 0 when there is none
RECURSIVE FirstNonzero(_, _, _)
FirstNonzero(K, f, n) ==
  IF n = 0 THEN 0
  ELSE LET x == FirstNonzero(K, f, n - 1)
       IN IF x # 0 THEN x
          ELSE IF file[n].kind = K THEN FieldOf(file[n], f) ELSE 0

\* C14: after the pass has processed any prefix of the data section, each
\* Stop bound is the largest value of its field among the gfc (static) or
\* gfct (TVG) records of the prefix, and 0; each Start bound is the first
\* nonzero value of its field among them, 0 when there is none.  A Start
\* bound that is nonzero therefore stays as it is for the rest of the pass.
C14_BoundsFollowRecords ==
  fstate # "closed" =>
    LET n == Processed IN
    /\ degree_static_stop = MaxSeen("gfc", "degree", n)
    /\ order_static_stop = MaxSeen("gfc", "order", n)
    /\ degree_tv_stop = MaxSeen("gfct", "degree", n)
    /\ order_tv_stop = MaxSeen("gfct", "order", n)
    /\ degree_static_start = FirstNonzero("gfc", "degree", n)
    /\ order_static_start = FirstNonzero("gfc", "order", n)
    /\ degree_tv_start = FirstNonzero("gfct", "degree", n)
    /\ order_tv_start = FirstNonzero("gfct", "order", n)

\* C14 witness: gfc 0 0, gfct 1 0, gfct 2 1 were processed: the static
\* bounds are 0, the TVG degree starts at 1 and stops at 2, the TVG order
\* starts and stops at 1
C14_Witness ==
  /\ pc = "idle" /\ ret = "ok" /\ fpos = 3
  /\ file[1].kind = "gfc" /\ file[1].l = 0
  /\ file[2].kind = "gfct" /\ file[2].l = 1 /\ file[2].m = 0
  /\ file[3].kind = "gfct" /\ file[3].l = 2 /\ file[3].m = 1
  /\ degree_static_start = 0 /\ degree_static_stop = 0
  /\ degree_tv_start = 1 /\ degree_tv_stop = 2
  /\ order_tv_start = 1 /\ order_tv_stop = 1

\* C15: at every point of a pass the TVG context (tvg_ll, tvg_mm) is the
\* (degree, order) of the last gfct record processed, (-1, -1) when there
\* is none: gfct records set it to their own pair, and gfc, trnd, acos,
\* asin and unknown lines leave it as it is.
C15_ContextIsLastGfct ==
  pc = "inspect" => <<tvg_ll, tvg_mm>> = LastGfct(Processed)

\* C15 witness: gfct 2 1, then gfct 1 0, then a trnd 1 0 line were
\* processed and the context is (1, 0)
C15_Witness ==
  /\ pc = "inspect" /\ fstate = "eof" /\ fpos = 3
  /\ file[1].kind = "gfct" /\ file[1].l = 2 /\ file[1].m = 1
  /\ file[2].kind = "gfct" /\ file[2].l = 1 /\ file[2].m = 0
  /\ file[3].kind = "trnd"
  /\ tvg_ll = 1 /\ tvg_mm = 0

\* C16: at every point of a pass each value of the catalog is the period of
\* an acos/asin record at (degree, order) = (1, 0) processed earlier in the
\* pass; no other record puts a value in the catalog.
C16_CatalogFromDegree1Only ==
  fstate # "closed" => Range(harmonics) \subseteq Declared(Processed)


(***************************************************************************)
(* Claims about the single lines parse_data reads.  The pass does not keep *)
(* the file, so a claim about the loop body on a line x is a claim about   *)
(* the steps ExtractOn(x).                                                 *)
(***************************************************************************)
\* a "gfc " line with fewer than four well-formed numeric fields
ShortGfc(x) == x.rec.kind = "malformed" /\ x.scan.gfc

\* C17: whenever the loop body of extract runs on a "gfc " line with fewer
\* than four well-formed numeric fields, the pass returns FieldParseError,
\* whether or not the degree and order read from the line lie in the window.
C17_ShortGfcFails ==
  [][\A x \in XLines :
       (pc = "loop" /\ ShortGfc(x) /\ ExtractOn(x))
         => pc' = "done" /\ ret' = "FieldParseError"]_vars

\* a gfc record with degree above L or order above M
OutsideGfc(x) ==
  x.rec.kind = "gfc" /\ (x.rec.l > req_l \/ x.rec.m > req_m)

\* the step is the loop body on a gfc record outside the window (such a
\* step adds no pair to seen, Noted, and a line was there to read)
OnOutsideRecord ==
  /\ seen' = seen /\ fstate' = "good"
  /\ \E x \in XLines : OutsideGfc(x) /\ ExtractOn(x)

\* C18: the loop body of extract(L, M) on a gfc record with degree > L or
\* order > M leaves every cell of the store and the written count as they
\* were and goes on to the next line.  Stated step by step: a step of the
\* loop leaves all this as it was, or else it is no step on such a record.
C18_OutsideRecordLeavesStore ==
  [][pc = "loop" =>
       \/ /\ pc' = "loop" /\ ret' = ret
          /\ UNCHANGED <<C, S, coeffs_read, touched>>
       \/ ~OnOutsideRecord]_vars

\* C18 witness: extract(2, 1) of a build with asserts has read the records
\* (0,0) and (2,1) and one line outside the format convention, and goes on.
\* That line was not counted (coeffs_read is the number of pairs seen), so it
\* was no record of the window; it did not end the pass, so it was a gfc
\* line with degree above 2 or order above 1, such as gfc 3 0 130 0.5.  The
\* two records are in the store, the cell (2,2) is as it was.
C18_Witness ==
  /\ pc = "loop" /\ ~ndebug /\ req_l = 2 /\ req_m = 1
  /\ nodd = 1 /\ seen = {<<0, 0>>, <<2, 1>>} /\ coeffs_read = Cardinality(seen)
  /\ touched = seen \cup Degree1
  /\ C[<<2, 1>>] = CosOf(2, 1) /\ S[<<2, 1>>] = SinOf(2, 1)
  /\ C[<<2, 2>>] = Zero /\ S[<<2, 2>>] = Zero

\* C19: the written count of extract never exceeds the target and grows by
\* at most one per step; a pass whose count has reached the target takes no
\* further line: its next step returns success and leaves the store and the
\* count as they are, whatever the lines that follow.
C19_StopsAtTarget ==
  [][/\ coeffs_read' <= coeffs_to_read'
     /\ coeffs_read' \in {coeffs_read, coeffs_read + 1}
     /\ (pc = "loop" /\ coeffs_read >= coeffs_to_read)
          => /\ pc' = "done" /\ ret' = "ok"
             /\ UNCHANGED <<C, S, coeffs_read, touched>>]_vars

\* C19 witness: extract(2, 1) returned success with its five coefficients
\* written while the stream still was good: the getline before the last loop
\* test read a line, which was never looked at
C19_Witness ==
  /\ pc = "done" /\ ret = "ok" /\ fstate = "good"
  /\ req_l = 2 /\ req_m = 1 /\ coeffs_to_read = 5 /\ coeffs_read = 5
  /\ seen = Window(2, 1)


(***************************************************************************)
(* parse_static_coefficients: the stream is handed in open; the lines it   *)
(* may hold are those of ILines.                                           *)
(***************************************************************************)
\* the call, up to the first (and only) getline
StaticBegin ==
  /\ pc = "idle" /\ ret = "none"
  /\ \E l \in 0..MaxDeg, m \in 0..MaxDeg :
       m <= l /\ maxdegree' = l /\ maxorder' = m
  /\ error' = 0 /\ turn' = 0
  /\ pc' = "static"
  /\ \E o \in Incoming(0) : Getline(0, <<>>, o)
  /\ UNCHANGED <<countVars, buildVars, headVars, boundVars, harmonics, tvg_ll,
                 tvg_mm, start, npass, prev, extrVars, ret>>

\* if (ll<=maxdegree && mm<=maxorder): the two assignments to the store.
\* strtod gives 0 when it converts nothing and only the Clm conversion is
\* tested; from_chars leaves the cell as it is and both are tested.
StaticStore(ix) ==
  LET cell == <<ix.ll, ix.mm>>
      c == scan_double(line, ix.end)
      d == scan_double(line, c.end)
      nerr == IF build = "strtol" THEN (IF c.ok THEN 0 ELSE 1)
              ELSE (IF c.ok THEN 0 ELSE 1) + (IF d.ok THEN 0 ELSE 1)
  IN /\ error' = error + nerr
     /\ IF cell \in Cells
          THEN /\ C' = IF build = "strtol" \/ c.ok
                         THEN [C EXCEPT ![cell] = c.val] ELSE C
               /\ S' = IF build = "strtol" \/ d.ok
                         THEN [S EXCEPT ![cell] = d.val] ELSE S
               /\ UNCHANGED <<pc, ret>>
          ELSE /\ UNCHANGED <<C, S>>
               /\ \/ pc' = "done" /\ ret' = "crash"
                  \/ UNCHANGED <<pc, ret>>

\* while (fin.good() && !error): one turn.  The body holds no getline: the
\* line and the stream are after the turn what they were before it.
StaticLine ==
  LET ix == Indices(4) IN
  /\ pc = "static" /\ fstate = "good" /\ error = 0
  /\ turn' = 1 - turn
  /\ IF starts_with(TagGfc, line)
       THEN IF ~ix.okll \/ ~ix.okmm
              THEN /\ pc' = "done" /\ ret' = "FieldParseError"
                   /\ UNCHANGED <<C, S, error>>
              ELSE IF ix.ll <= maxdegree /\ ix.mm <= maxorder
                     THEN StaticStore(ix)
                     ELSE UNCHANGED <<C, S, error, pc, ret>>
       ELSE UNCHANGED <<C, S, error, pc, ret>>
  /\ UNCHANGED <<countVars, buildVars, headVars, inspVars, maxdegree, maxorder,
                 req_l, req_m, coeffs_read, coeffs_to_read, seen, recC, recS,
                 nodd, touched, fstate>>

\* after the loop: if (!fin.good()) { if (fin.eof()) clear; else return 10; }
\* if (error) return error; return 0
StaticEnd ==
  /\ pc = "static" /\ ~(fstate = "good" /\ error = 0)
  /\ pc' = "done"
  /\ ret' = IF fstate = "fail" THEN "IoError"
            ELSE IF error # 0 THEN "FieldParseError" ELSE "ok"
  /\ UNCHANGED <<countVars, buildVars, headVars, inspVars, extrVars, statVars,
                 fstate>>

InitStatic == InitCommon /\ ndebug = TRUE

NextStatic == StaticBegin \/ StaticLine \/ StaticEnd

SpecStatic == InitStatic /\ [][NextStatic]_vars

\* C20: every turn of a line-scanning loop that does not return reads a new
\* line (or meets the end of the stream), so that no pass stays on the same
\* line forever.
C20_EveryTurnReadsALine ==
  [][(pc \in {"inspect", "static"} /\ pc' = pc)
       => fpos' = fpos + 1 \/ fstate' # "good"]_vars


(***************************************************************************)
(* Claims about the end of a parse_data pass and about the cells it writes.*)
(***************************************************************************)
\* C21: a pass of extract whose stream stopped in a failed state that is not
\* the end of the stream (a line longer than the limit) while coefficients
\* of the target were still unread does not return success, not through the
\* degree-1 omission convention either.
C21_LongLineFailsExtract ==
  (pc = "done" /\ Ran /\ fstate = "fail" /\ coeffs_read < coeffs_to_read)
    => ret # "ok"


\* C22: every cell extract(L, M) has written, the two cells given the value
\* -999 before reading and reset afterwards included, is a cell (l, m) with
\* l <= L and m <= M (stated for the passes made after the header was read).
C22_WritesInsideWindow ==
  data_section_pos # 0 => \A p \in touched : p[1] <= req_l /\ p[2] <= req_m


\* C23: every cell extract has written is a cell (ll, mm) of the store,
\* 0 <= mm <= ll: a gfc record with order above degree or with a negative
\* degree or order is not written (stated for the passes made after the
\* header was read).
C23_WritesAreCells ==
  data_section_pos # 0 => \A p \in touched : 0 <= p[2] /\ p[2] <= p[1]


\* C24: when extract(L, M) returns success, every pair of the window was
\* assigned from a gfc record for that pair read in the pass and holds its
\* value, or it is (1,0) or (1,1) and both hold 0 (stated for the passes
\* made after the header was read).
C24_SuccessFillsWindow ==
  (pc = "done" /\ ret = "ok" /\ data_section_pos # 0)
    => \A p \in Window(req_l, req_m) :
         \/ p \in seen /\ StoreHolds(p)
         \/ p \in Degree1 /\ C[<<1, 0>>] = Zero /\ C[<<1, 1>>] = Zero


(***************************************************************************)
(* Claims about the records inspect_data meets before any gfct record, and *)
(* about where it reads the degree of an acos/asin record.                 *)
(***************************************************************************)
\* a trnd, acos or asin record with no gfct record before it
BeforeAnyGfct(k) ==
  /\ file[k].kind \in {"trnd", "acos", "asin"}
  /\ LastGfct(k - 1) = <<0 - 1, 0 - 1>>

\* C25: a trnd, acos or asin record that comes before any gfct record of the
\* pass is never passed over: the pass returns ConsistencyError from that
\* line, whatever degree and order the record carries.
C25_UnsetContextFails ==
  \A k \in 1..Len(file) :
    (k <= fpos /\ BeforeAnyGfct(k))
      => Pending(k) \/ Rejected(k, "ConsistencyError")


\* C26: whenever the loop body of inspect_data is about to run on an acos or
\* asin line, start points at the byte right after the 4-character tag of
\* that line.  The branch assigns nothing to start before it reads the
\* degree, so the degree is read where start points in this state.
C26_HarmonicScansAfterTag ==
  (/\ pc = "inspect" /\ fstate = "good"
   /\ starts_with(TagAcos, line) \/ starts_with(TagAsin, line))
    => start = 4

=============================================================================
